---------------------------- MODULE Spec2Model ----------------------------
(***************************************************************************)
(* Model of src/utils/puzzleGenerator.js: the weighted letter sampler      *)
(* (getRandomLetter), the board generator (generateBoard), the daily       *)
(* puzzle (generateDailyPuzzle) and the scoring lookup (getLetterPoints).  *)
(*                                                                         *)
(* Encoding.                                                               *)
(*  - A JavaScript string is the tuple of its UTF-16 code units, so that   *)
(*    `.length` is Len and "non-empty" is Len > 0: "A" is <<65>>, the      *)
(*    precomposed glyph N-tilde of the tables is <<209>>, the decomposed   *)
(*    one (N followed by a combining tilde) is <<78, 771>>.                *)
(*  - A weight of a frequency table is kept in tenths (8.2 is 82), which   *)
(*    makes every sum and comparison of the sampler exact.                 *)
(*    The code adds the same weights as IEEE doubles. On the regular path  *)
(*    the last running sum is the very double `totalFreq`, and the draw    *)
(*    Math.random() * totalFreq cannot exceed it; on the vowel path the    *)
(*    normalised weights of en, es and fr add up, in doubles, to 1, 1 and  *)
(*    1.0000000000000002, never below a draw. So the walk always returns   *)
(*    inside its loop, as it does here, and the fallbacks of lines 74 and  *)
(*    94 are kept in the operators but are not reached.                    *)
(*  - A probability option is kept in hundredths (0.35 is 35).             *)
(*  - Math.random() returns a fraction k / den with 0 <= k < den, every k  *)
(*    being possible at every call; den is a bound of the exploration.     *)
(***************************************************************************)
EXTENDS Integers, Sequences, FiniteSets

VARIABLES
    Math_seedrandom,           \* the property `seedrandom` of the global Math,
                               \* 0 while it is undefined
    today,                     \* what `new Date()` reads
    op,                        \* the function last called
    pc,                        \* "idle", or "loop" inside generateBoard
    language, rows, cols,      \* the running / last generateBoard call
    vowelProbability, specialLetterProbability,
    board, row,                \* locals of generateBoard
    cell,                      \* what the last loop iteration did
    status,                    \* "none" | "running" | "returned" | "threw"
    returned,                  \* the board the last generator call returned
    letterArg, languageArg,    \* the last getLetterPoints call
    points,                    \* its result
    sample,                    \* the last getRandomLetter call and its result
    prevDaily, lastDaily       \* history: the last two daily puzzles returned

vars == <<Math_seedrandom, today, op, pc, language, rows, cols,
          vowelProbability, specialLetterProbability, board, row, cell,
          status, returned, letterArg, languageArg, points, sample,
          prevDaily, lastDaily>>

---------------------------------------------------------------------------
(* Bounds of the exploration.                                              *)

RandDenom == 3          \* inside generateBoard Math.random() is k / RandDenom
SampleDenom == 40       \* for a lone getRandomLetter it is k / SampleDenom
MaxCells == 2           \* generateBoard is called with rows * cols <= MaxCells
MaxDailyRows == 1       \* the daily board's 6 rows are cut to this many
MaxDailyCols == 1       \* the daily board's 6 columns are cut to this many

Draws == 0 .. (RandDenom - 1)

\* the literals of the call at lines 161-165
DailyRows == 6
DailyCols == 6
DailyVowelProbability == 40
DailySpecialLetterProbability == 20

---------------------------------------------------------------------------
(* The static tables.                                                      *)

W(c, w) == [ch |-> <<c>>, w |-> w]

\* A..Z are the code units 65..90
FreqEn ==
    << W(65, 82), W(66, 15), W(67, 28), W(68, 43), W(69, 127), W(70, 22),
       W(71, 20), W(72, 61), W(73, 70), W(74, 2),  W(75, 8),   W(76, 40),
       W(77, 24), W(78, 67), W(79, 75), W(80, 19), W(81, 1),   W(82, 60),
       W(83, 63), W(84, 91), W(85, 28), W(86, 10), W(87, 24),  W(88, 2),
       W(89, 20), W(90, 1) >>

\* ... and 209 is N-tilde
FreqEs ==
    << W(65, 115), W(66, 22), W(67, 40), W(68, 50), W(69, 122), W(70, 7),
       W(71, 10),  W(72, 7),  W(73, 62), W(74, 5),  W(75, 1),   W(76, 50),
       W(77, 32),  W(78, 70), W(79, 87), W(80, 25), W(81, 9),   W(82, 65),
       W(83, 73),  W(84, 46), W(85, 39), W(86, 10), W(87, 1),   W(88, 2),
       W(89, 10),  W(90, 5),  W(209, 2) >>

\* ... 201 E-acute, 200 E-grave, 202 E-circumflex, 199 C-cedilla
FreqFr ==
    << W(65, 76), W(66, 9),  W(67, 30), W(68, 37), W(69, 147), W(70, 10),
       W(71, 9),  W(72, 7),  W(73, 75), W(74, 6),  W(75, 1),   W(76, 55),
       W(77, 29), W(78, 71), W(79, 53), W(80, 30), W(81, 14),  W(82, 65),
       W(83, 79), W(84, 72), W(85, 63), W(86, 18), W(87, 1),   W(88, 4),
       W(89, 3),  W(90, 1),  W(201, 19), W(200, 3), W(202, 2), W(199, 1) >>

\* Object.keys(letterFrequencies), in insertion order
LanguageKeys == << "en", "es", "fr" >>

letterFrequencies ==
    [l \in {"en", "es", "fr"} |->
        IF l = "en" THEN FreqEn ELSE IF l = "es" THEN FreqEs ELSE FreqFr]

vowels ==
    [l \in {"en", "es", "fr"} |->
        IF l = "en" THEN << <<65>>, <<69>>, <<73>>, <<79>>, <<85>>, <<89>> >>
        ELSE IF l = "es" THEN << <<65>>, <<69>>, <<73>>, <<79>>, <<85>> >>
        ELSE << <<65>>, <<69>>, <<73>>, <<79>>, <<85>>, <<89>>,
                <<201>>, <<200>>, <<202>> >>]

\* commonScoring, the object literal getLetterPoints builds at each call
commonScoring ==
    << W(65, 1), W(66, 3), W(67, 3), W(68, 2), W(69, 1), W(70, 4), W(71, 2),
       W(72, 4), W(73, 1), W(74, 8), W(75, 5), W(76, 1), W(77, 3), W(78, 1),
       W(79, 1), W(80, 3), W(81, 10), W(82, 1), W(83, 1), W(84, 1), W(85, 1),
       W(86, 4), W(87, 4), W(88, 8), W(89, 4), W(90, 10) >>

---------------------------------------------------------------------------
(* Property access on the tables.                                          *)

\* the keys of an object, in iteration order
Keys(obj) == [i \in 1 .. Len(obj) |-> obj[i].ch]

KeySet(obj) == {obj[i].ch : i \in 1 .. Len(obj)}

\* obj[key] when key is an own property
Get(obj, key) == (CHOOSE i \in 1 .. Len(obj) : obj[i].ch = key)

\* the truthiness of obj[key]: undefined and 0 are falsy
Truthy(obj, key) == \E i \in 1 .. Len(obj) : obj[i].ch = key /\ obj[i].w # 0

\* obj[key], for an own property key
Value(obj, key) == obj[Get(obj, key)].w

\* tables[l] || tables.en
OrEn(tables, l) == IF l \in DOMAIN tables THEN tables[l] ELSE tables["en"]

RECURSIVE SumW(_, _)
\* the for-loops that add up the weights of the first n entries
SumW(entries, n) == IF n = 0 THEN 0 ELSE SumW(entries, n - 1) + entries[n].w

---------------------------------------------------------------------------
(* The arithmetic on a draw k / den of Math.random()                       *)

\* (a variant of Less: the comparison written `<=`)
LessOrEqual(k, p) == k * 100 <= p * RandDenom

\* Math.random() < p, p in hundredths
Less(k, p) == k * 100 < p * RandDenom

\* (a variant of Floor: the index one too far)
FloorPlusOne(k, n) == (k * n) \div RandDenom + 1

\* Math.floor(Math.random() * n)
Floor(k, n) == (k * n) \div RandDenom

\* random <= cumulativeProb, where random is k / den of totalFreq
\* (general path: Math.random() * totalFreq against the raw running sum;
\*  vowel path: Math.random() against the running sum of weight / totalFreq)
Reached(k, den, totalFreq, cumulativeProb) == k * totalFreq <= cumulativeProb * den

---------------------------------------------------------------------------
(* getRandomLetter, lines 40-95                                            *)

\* vowelFreq: the vowels of the language that have a truthy weight, in the
\* order of the vowel list, each with its weight
ExtractVowelFreq(freq, langVowels) ==
    LET kept == SelectSeq(langVowels, LAMBDA v : Truthy(freq, v))
    IN  [i \in 1 .. Len(kept) |-> [ch |-> kept[i], w |-> Value(freq, kept[i])]]

RECURSIVE WalkNoAccumulate(_, _, _, _, _, _)
\* (a variant of Walk: `cumulativeProb = weight` instead of `+=`)
WalkNoAccumulate(entries, i, cumulativeProb, k, den, totalFreq) ==
    IF i > Len(entries) THEN 0
    ELSE LET c == entries[i].w
         IN  IF Reached(k, den, totalFreq, c) THEN i
             ELSE WalkNoAccumulate(entries, i + 1, c, k, den, totalFreq)

RECURSIVE Walk(_, _, _, _, _, _)
\* the cumulative walk: the index of the first entry at which the running
\* sum reaches the draw, 0 when the loop ends without returning
Walk(entries, i, cumulativeProb, k, den, totalFreq) ==
    IF i > Len(entries) THEN 0
    ELSE LET c == cumulativeProb + entries[i].w
         IN  IF Reached(k, den, totalFreq, c) THEN i
             ELSE Walk(entries, i + 1, c, k, den, totalFreq)

\* the vowel path, lines 44-75
RandomVowel(lang, k, den) ==
    LET freq == OrEn(letterFrequencies, lang)
        langVowels == OrEn(vowels, lang)
        vowelFreq == ExtractVowelFreq(freq, langVowels)
        totalFreq == SumW(vowelFreq, Len(vowelFreq))
        hit == Walk(vowelFreq, 1, 0, k, den, totalFreq)
    IN  IF hit # 0 THEN vowelFreq[hit].ch ELSE langVowels[1]

\* the regular selection, lines 77-94
RandomRegular(lang, k, den) ==
    LET freq == OrEn(letterFrequencies, lang)
        totalFreq == SumW(freq, Len(freq))
        hit == Walk(freq, 1, 0, k, den, totalFreq)
    IN  IF hit # 0 THEN freq[hit].ch ELSE <<69>>

getRandomLetter(lang, ensureVowel, k, den) ==
    IF ensureVowel THEN RandomVowel(lang, k, den) ELSE RandomRegular(lang, k, den)

---------------------------------------------------------------------------
(* generateBoard, lines 104-146                                            *)

\* the value `undefined`, where a glyph is expected
Undefined == << -1 >>

\* arr[i], a read of a JavaScript array at the 0-based index i: `undefined`
\* outside the array
Index(arr, i, undefined) == IF i + 1 \in 1 .. Len(arr) THEN arr[i + 1] ELSE undefined

\* (a variant of OtherLanguages: the filter left out)
OtherLanguagesAll(lang) == LanguageKeys

\* Object.keys(letterFrequencies).filter(lang => lang !== language)
OtherLanguages(lang) == SelectSeq(LanguageKeys, LAMBDA l : l # lang)

\* (a variant of SpecialLetters: the filter left out)
SpecialLettersUnfiltered(lang, otherLang) ==
    IF otherLang \notin DOMAIN letterFrequencies
    THEN [threw |-> TRUE, value |-> <<>>]
    ELSE [threw |-> FALSE, value |-> Keys(letterFrequencies[otherLang])]

\* Object.keys(letterFrequencies[otherLang])
\*   .filter(char => char.length > 1 || !letterFrequencies[language][char])
\* letterFrequencies[language] is undefined for an unknown language, and
\* reading a property of undefined throws a TypeError: the callback does so
\* for the first key that is a single code unit. (Object.keys(undefined)
\* throws too.)
SpecialLetters(lang, otherLang) ==
    LET keys == Keys(letterFrequencies[otherLang]) IN
    IF otherLang \notin DOMAIN letterFrequencies
    THEN [threw |-> TRUE, value |-> <<>>]
    ELSE IF lang \notin DOMAIN letterFrequencies
    THEN IF \E i \in 1 .. Len(keys) : ~(Len(keys[i]) > 1)
         THEN [threw |-> TRUE, value |-> <<>>]
         ELSE [threw |-> FALSE, value |-> keys]
    ELSE [threw |-> FALSE,
          value |-> SelectSeq(keys, LAMBDA char :
                        Len(char) > 1 \/ ~Truthy(letterFrequencies[lang], char))]

\* what a loop iteration records of itself when nothing has run yet
NoCell ==
    [base |-> <<>>, specialTaken |-> FALSE, otherLang |-> "",
     specialLetters |-> <<>>, overwritten |-> FALSE, letter |-> <<>>,
     threw |-> FALSE]

\* lines 117-121: the forced-vowel decision on the draw k1 and the base
\* letter on the draw k2
BaseLetter(lang, vp, k1, k2) ==
    LET forceVowel == Less(k1, vp)
    IN  getRandomLetter(lang, forceVowel, k2, RandDenom)

\* lines 123-138: the substitution of a special letter for `letter`, on the
\* draws k3, k4, k5 of Math.random() in the order of the calls (a draw the
\* run does not make is ignored)
Substitute(lang, sp, base, k3, k4, k5) ==
    LET c0 == [NoCell EXCEPT !.base = base, !.letter = base]
    IN  IF Less(k3, sp)
        THEN LET languages == OtherLanguages(lang)
                 c1 == [c0 EXCEPT !.specialTaken = TRUE]
             IN  IF Len(languages) > 0
                 THEN LET otherLang == Index(languages, Floor(k4, Len(languages)),
                                             "undefined")
                          special == SpecialLetters(lang, otherLang)
                          specialLetters == special.value
                          c2 == [c1 EXCEPT !.otherLang = otherLang,
                                           !.specialLetters = specialLetters]
                      IN  IF special.threw
                          THEN [c2 EXCEPT !.threw = TRUE]
                          ELSE IF Len(specialLetters) > 0
                          THEN [c2 EXCEPT
                                  !.overwritten = TRUE,
                                  !.letter = Index(specialLetters,
                                      Floor(k5, Len(specialLetters)), Undefined)]
                          ELSE c2
                 ELSE c1
        ELSE c0

\* the body of the inner loop up to `row.push`, over all the draws
CellRunsOf(lang, vp, sp) ==
    UNION { LET base == BaseLetter(lang, vp, k1, k2)
            IN  {Substitute(lang, sp, base, k3, k4, k5) :
                    k3 \in Draws, k4 \in Draws, k5 \in Draws} :
            k1 \in Draws, k2 \in Draws }

---------------------------------------------------------------------------
(* The inputs of the exploration.                                          *)

\* en, es, fr and a code that is no key of the tables
LanguageArgs == {"en", "es", "fr", "de"}

\* 0, the default of line 107, the daily puzzle's of line 163, and 1
VowelProbabilityArgs == {0, 35, 40, 100}

\* 0, the default of line 108, the daily puzzle's of line 164, and 1
SpecialLetterProbabilityArgs == {0, 15, 20, 100}

\* CellRunsOf for each call of the exploration
CellRuns ==
    [lang \in LanguageArgs, vp \in VowelProbabilityArgs,
     sp \in SpecialLetterProbabilityArgs |-> CellRunsOf(lang, vp, sp)]

NoDaily == [seed |-> 0, board |-> <<>>]

NoSample == [language |-> "", ensureVowel |-> FALSE, k |-> 0, letter |-> <<>>]

\* (a variant of Push: rows and cols taken for each other)
PushSwapped(c) ==
    LET row2 == Append(row, c.letter)
        rowDone == Len(row2) = rows
        board2 == IF rowDone THEN Append(board, row2) ELSE board
        done == rowDone /\ Len(board2) = cols
    IN  /\ cell' = c
        /\ row' = IF rowDone THEN <<>> ELSE row2
        /\ board' = IF done THEN <<>> ELSE board2
        /\ pc' = IF done THEN "idle" ELSE "loop"
        /\ status' = IF done THEN "returned" ELSE "running"
        /\ returned' = IF done THEN board2 ELSE returned
        /\ lastDaily' = IF done /\ op = "generateDailyPuzzle"
                        THEN [seed |-> Math_seedrandom, board |-> board2]
                        ELSE lastDaily

\* row.push(letter); at the end of a row board.push(row); at the end of the
\* last row `return board`
Push(c) ==
    LET row2 == Append(row, c.letter)
        rowDone == Len(row2) = cols
        board2 == IF rowDone THEN Append(board, row2) ELSE board
        done == rowDone /\ Len(board2) = rows
    IN  /\ cell' = c
        /\ row' = IF rowDone THEN <<>> ELSE row2
        /\ board' = IF done THEN <<>> ELSE board2
        /\ pc' = IF done THEN "idle" ELSE "loop"
        /\ status' = IF done THEN "returned" ELSE "running"
        /\ returned' = IF done THEN board2 ELSE returned
        /\ lastDaily' = IF done /\ op = "generateDailyPuzzle"
                        THEN [seed |-> Math_seedrandom, board |-> board2]
                        ELSE lastDaily

\* an exception leaves generateBoard: nothing is returned
Throw(c) ==
    /\ cell' = c
    /\ row' = <<>>
    /\ board' = <<>>
    /\ pc' = "idle"
    /\ status' = "threw"
    /\ UNCHANGED <<returned, lastDaily>>

\* one iteration of the inner loop, lines 116-141 (and 142, 145 when it is the
\* last of its row, of the board)
GenerateCell ==
    /\ pc = "loop"
    /\ \E c \in CellRuns[language, vowelProbability, specialLetterProbability] :
         IF c.threw THEN Throw(c) ELSE Push(c)
    /\ UNCHANGED <<Math_seedrandom, today, op, language, rows, cols,
                   vowelProbability, specialLetterProbability, letterArg,
                   languageArg, points, sample, prevDaily>>

\* the entry of generateBoard, lines 104-111
EnterGenerateBoard(caller, r, c, lang, vp, sp) ==
    /\ op' = caller
    /\ pc' = "loop"
    /\ language' = lang
    /\ rows' = r
    /\ cols' = c
    /\ vowelProbability' = vp
    /\ specialLetterProbability' = sp
    /\ board' = <<>>
    /\ row' = <<>>
    /\ cell' = NoCell
    /\ status' = "running"
    /\ returned' = <<>>
    /\ letterArg' = <<>>
    /\ languageArg' = ""
    /\ points' = 0
    /\ sample' = NoSample

\* a caller calls generateBoard(rows, cols, {language, vowelProbability,
\* specialLetterProbability})
CallGenerateBoard ==
    /\ pc = "idle"
    /\ \E r \in 1 .. MaxCells, c \in 1 .. MaxCells, lang \in LanguageArgs,
          vp \in VowelProbabilityArgs \ {DailyVowelProbability},
          sp \in SpecialLetterProbabilityArgs \ {DailySpecialLetterProbability} :
         /\ r * c <= MaxCells
         /\ EnterGenerateBoard("generateBoard", r, c, lang, vp, sp)
    /\ UNCHANGED <<Math_seedrandom, today, prevDaily, lastDaily>>

---------------------------------------------------------------------------
(* generateDailyPuzzle, lines 152-166                                      *)

\* today.getFullYear() * 10000 + (today.getMonth() + 1) * 100 + today.getDate()
Seed(d) == d.year * 10000 + (d.month + 1) * 100 + d.date

Min(a, b) == IF a < b THEN a ELSE b

\* `Math.seedrandom = seed`, then generateBoard(6, 6, {...}); the history
\* moves on: the puzzle returned last becomes the previous one
CallGenerateDailyPuzzle ==
    /\ pc = "idle"
    /\ Math_seedrandom' = Seed(today)
    /\ EnterGenerateBoard("generateDailyPuzzle",
                          Min(DailyRows, MaxDailyRows), Min(DailyCols, MaxDailyCols),
                          "en", DailyVowelProbability, DailySpecialLetterProbability)
    /\ prevDaily' = lastDaily
    /\ lastDaily' = NoDaily
    /\ UNCHANGED today

\* the calendar: the day after 31 December 2024 is 1 January 2025
Dates == << [year |-> 2024, month |-> 11, date |-> 31],
            [year |-> 2025, month |-> 0, date |-> 1] >>

\* midnight passes
ClockTick ==
    /\ today = Dates[1]
    /\ today' = Dates[2]
    /\ UNCHANGED <<Math_seedrandom, op, pc, language, rows, cols,
                   vowelProbability, specialLetterProbability, board, row,
                   cell, status, returned, letterArg, languageArg, points,
                   sample, prevDaily, lastDaily>>

---------------------------------------------------------------------------
(* getLetterPoints, lines 174-188                                          *)

\* commonScoring[letter] || 2
ScoreOr2(letter) ==
    IF Truthy(commonScoring, letter) THEN Value(commonScoring, letter) ELSE 2

\* (a variant of getLetterPoints: the test for special characters left out)
getLetterPointsNoSpecial(letter, lang) == ScoreOr2(letter)

getLetterPoints(letter, lang) ==
    IF Len(letter) > 1 \/ ~Truthy(commonScoring, letter)
    THEN 8
    ELSE ScoreOr2(letter)

\* the letters a caller scores: A..Z, the five accented glyphs of the tables,
\* "@", "q", the empty string, "CH", and N-tilde written as two code units
LetterArgs ==
    {<<c>> : c \in 65 .. 90} \cup {<<209>>, <<201>>, <<200>>, <<202>>, <<199>>}
        \cup {<<64>>, <<113>>, <<>>, <<67, 72>>, <<78, 771>>}

\* the other call leaves nothing of the last one behind
Forget ==
    /\ pc' = "idle"
    /\ status' = "returned"
    /\ returned' = <<>>
    /\ board' = <<>>
    /\ row' = <<>>
    /\ cell' = NoCell
    /\ language' = "en"
    /\ rows' = 0
    /\ cols' = 0
    /\ vowelProbability' = 0
    /\ specialLetterProbability' = 0

GetLetterPoints ==
    /\ pc = "idle"
    /\ \E letter \in LetterArgs, lang \in LanguageArgs :
         /\ letterArg' = letter
         /\ languageArg' = lang
         /\ points' = getLetterPoints(letter, lang)
    /\ op' = "getLetterPoints"
    /\ sample' = NoSample
    /\ Forget
    /\ UNCHANGED <<Math_seedrandom, today, prevDaily, lastDaily>>

---------------------------------------------------------------------------
(* A lone call of getRandomLetter                                          *)

GetRandomLetter ==
    /\ pc = "idle"
    /\ \E lang \in LanguageArgs, ensureVowel \in BOOLEAN, k \in 0 .. (SampleDenom - 1) :
         sample' = [language |-> lang, ensureVowel |-> ensureVowel, k |-> k,
                    letter |-> getRandomLetter(lang, ensureVowel, k, SampleDenom)]
    /\ op' = "getRandomLetter"
    /\ letterArg' = <<>>
    /\ languageArg' = ""
    /\ points' = 0
    /\ Forget
    /\ UNCHANGED <<Math_seedrandom, today, prevDaily, lastDaily>>

---------------------------------------------------------------------------
(* The specifications.                                                     *)

Init ==
    /\ Math_seedrandom = 0
    /\ today = Dates[1]
    /\ op = "none"
    /\ pc = "idle"
    /\ language = "en"
    /\ rows = 0
    /\ cols = 0
    /\ vowelProbability = 0
    /\ specialLetterProbability = 0
    /\ board = <<>>
    /\ row = <<>>
    /\ cell = NoCell
    /\ status = "none"
    /\ returned = <<>>
    /\ letterArg = <<>>
    /\ languageArg = ""
    /\ points = 0
    /\ sample = NoSample
    /\ prevDaily = NoDaily
    /\ lastDaily = NoDaily

\* callers of generateBoard
Next == CallGenerateBoard \/ GenerateCell

Spec == Init /\ [][Next]_vars

\* callers of getLetterPoints, and the sampler called alone
NextSampler == GetRandomLetter \/ GetLetterPoints

SpecSampler == Init /\ [][NextSampler]_vars

\* callers of generateDailyPuzzle, over two days
NextDaily == CallGenerateDailyPuzzle \/ GenerateCell \/ ClockTick

SpecDaily == Init /\ [][NextDaily]_vars

---------------------------------------------------------------------------
(* Vocabulary of the properties.                                           *)

Supported == {"en", "es", "fr"}

\* generateBoard, called directly, has come back (by return or by throw)
BoardCallOver == op = "generateBoard" /\ pc = "idle"

BoardReturned == BoardCallOver /\ status = "returned"

\* the cells of a board
CellsOf(b) == UNION { {b[i][j] : j \in 1 .. Len(b[i])} : i \in 1 .. Len(b) }

\* a non-empty string: at least one code unit, and code units only
NonEmptyString(x) == Len(x) > 0 /\ \A i \in 1 .. Len(x) : x[i] \in 0 .. 65535

\* the special characters language m offers to a board of language l
SpecialSet(l, m) ==
    {ch \in KeySet(letterFrequencies[m]) :
        Len(ch) > 1 \/ ch \notin KeySet(letterFrequencies[l])}

VowelSet(l) == {vowels[l][i] : i \in 1 .. Len(vowels[l])}

AccentedSet == {<<209>>, <<201>>, <<200>>, <<202>>, <<199>>}

\* the entries the sampler walks for a call: the language's table (the
\* English one for an unknown code), cut to its vowels on the vowel path
WalkedEntries(lang, ensureVowel) ==
    IF ensureVowel
    THEN ExtractVowelFreq(OrEn(letterFrequencies, lang), OrEn(vowels, lang))
    ELSE OrEn(letterFrequencies, lang)

---------------------------------------------------------------------------
(* The properties.                                                         *)

\* C1: generateBoard never fails on an unknown language code: whatever the
\* probabilities and the draws, it returns a grid of rows x cols cells whose
\* base letters come from the English table.
C1_UnknownLanguageNeverFails ==
    (BoardCallOver /\ language \notin Supported) =>
        /\ status = "returned"
        /\ Len(returned) = rows
        /\ \A i \in 1 .. Len(returned) : Len(returned[i]) = cols
        /\ cell.base \in KeySet(letterFrequencies["en"])

\* C2: two calls of generateDailyPuzzle on the same calendar date (the same
\* date seed) return the same board, cell for cell.
C2_SameDateSameBoard ==
    (prevDaily # NoDaily /\ lastDaily # NoDaily /\ prevDaily.seed = lastDaily.seed)
        => prevDaily.board = lastDaily.board

\* C3: for a supported language generateBoard returns, and the board has
\* exactly `rows` rows of exactly `cols` cells each.
C3_BoardDimensions ==
    (BoardCallOver /\ language \in Supported) =>
        /\ status = "returned"
        /\ Len(returned) = rows
        /\ \A i \in 1 .. Len(returned) : Len(returned[i]) = cols

C3_Witness ==
    /\ BoardReturned /\ language = "fr" /\ rows = 2 /\ cols = 1
    /\ Len(returned) = 2

\* C4: every cell of a board returned for a supported language L is a
\* non-empty string that is a character of L's table or a special character
\* of another configured language.
C4_CellsFromKnownSets ==
    (BoardReturned /\ language \in Supported) =>
        \A x \in CellsOf(returned) :
            /\ NonEmptyString(x)
            /\ \/ x \in KeySet(letterFrequencies[language])
               \/ \E m \in Supported \ {language} : x \in SpecialSet(language, m)

C4_Witness ==
    /\ BoardReturned /\ language = "fr" /\ specialLetterProbability = 15
    /\ <<209>> \in CellsOf(returned)
    /\ <<65>> \in CellsOf(returned)

\* C5: with vowelProbability 1 and specialLetterProbability 0 every cell of a
\* board is a vowel of the board's language: one of A, E, I, O, U, Y for en.
C5_VowelsOnly ==
    (BoardReturned /\ language \in Supported
        /\ vowelProbability = 100 /\ specialLetterProbability = 0) =>
        /\ CellsOf(returned) \subseteq VowelSet(language)
        /\ language = "en" =>
              CellsOf(returned) \subseteq
                  {<<65>>, <<69>>, <<73>>, <<79>>, <<85>>, <<89>>}

C5_Witness ==
    /\ BoardReturned /\ language = "en"
    /\ vowelProbability = 100 /\ specialLetterProbability = 0
    /\ rows * cols = 2
    /\ <<69>> \in CellsOf(returned)

\* C6: getLetterPoints returns 8 for a multi-character glyph and for a letter
\* that is no key of the scoring table, and the table's value otherwise,
\* whatever the language argument: Q scores 10, N-tilde and "@" score 8.
C6_LetterPoints ==
    op = "getLetterPoints" =>
        /\ points = IF Len(letterArg) > 1 \/ letterArg \notin KeySet(commonScoring)
                    THEN 8
                    ELSE Value(commonScoring, letterArg)
        /\ letterArg = <<81>> => points = 10
        /\ letterArg \in {<<209>>, <<64>>} => points = 8

C6_Witness ==
    /\ op = "getLetterPoints" /\ letterArg = <<81>> /\ languageArg = "fr"
    /\ points = 10

\* C7: when the substitution branch is taken and the special set of the
\* chosen other language is empty (es or fr with en chosen), the cell keeps
\* the base letter; the cell is overwritten only when that set is non-empty.
C7_EmptySpecialSetKeepsBase ==
    (op = "generateBoard" /\ cell.specialTaken /\ ~cell.threw
        /\ cell.otherLang \in Supported /\ language \in Supported) =>
        /\ SpecialSet(language, cell.otherLang) = {} =>
              (cell.letter = cell.base /\ ~cell.overwritten)
        /\ (cell.overwritten \/ cell.letter # cell.base) =>
              SpecialSet(language, cell.otherLang) # {}
        /\ (language \in {"es", "fr"} /\ cell.otherLang = "en") =>
              cell.letter = cell.base

C7_Witness ==
    /\ op = "generateBoard" /\ language = "es"
    /\ cell.specialTaken /\ cell.otherLang = "en"
    /\ cell.specialLetters = <<>>
    /\ cell.letter = cell.base /\ Len(cell.base) = 1

\* the index of the roulette-wheel pick among `entries` for the draw k / den
\* of their total weight: the first entry whose cumulative weight is at least
\* the draw
IsRoulettePick(entries, n, k, den) ==
    LET total == SumW(entries, Len(entries)) IN
    /\ n \in 1 .. Len(entries)
    /\ k * total <= SumW(entries, n) * den
    /\ \A m \in 1 .. (n - 1) : k * total > SumW(entries, m) * den

\* C9: getRandomLetter is roulette-wheel selection: for every table and every
\* draw it returns the first entry, in iteration order, whose cumulative
\* weight meets or exceeds the draw, hence a key of the table walked; the
\* fallback is not what a draw inside the range returns.
C9_RouletteWheel ==
    op = "getRandomLetter" =>
        LET entries == WalkedEntries(sample.language, sample.ensureVowel)
        IN  /\ \E n \in 1 .. Len(entries) :
                 /\ IsRoulettePick(entries, n, sample.k, SampleDenom)
                 /\ sample.letter = entries[n].ch
            /\ sample.letter \in KeySet(OrEn(letterFrequencies, sample.language))

C9_Witness ==
    /\ op = "getRandomLetter" /\ sample.language = "es" /\ ~sample.ensureVowel
    /\ sample.k = 20 /\ sample.letter = <<76>>

\* C10: for language en every other language has a non-empty special set
\* (N-tilde for es; E-acute, E-grave, E-circumflex, C-cedilla for fr), so a
\* taken substitution branch always overwrites, and with
\* specialLetterProbability 1 every cell of an en board is one of the five.
C10_EnglishAlwaysOverwritten ==
    (op = "generateBoard" /\ language = "en") =>
        /\ cell.specialTaken => cell.overwritten
        /\ cell.otherLang = "es" => cell.specialLetters = << <<209>> >>
        /\ cell.otherLang = "fr" =>
              cell.specialLetters = << <<201>>, <<200>>, <<202>>, <<199>> >>
        /\ (BoardReturned /\ specialLetterProbability = 100) =>
              CellsOf(returned) \subseteq AccentedSet

C10_Witness ==
    /\ BoardReturned /\ language = "en" /\ specialLetterProbability = 100
    /\ vowelProbability = 35 /\ rows * cols = 2
    /\ <<209>> \in CellsOf(returned)
    /\ <<201>> \in CellsOf(returned)

\* C8: no generator operation writes to shared data: the process-wide state
\* keeps its value of load time (Math.seedrandom stays undefined).
C8_NoSharedWrite == Math_seedrandom = 0

====
